---------------------------- MODULE Spec2Model ----------------------------
(***************************************************************************)
(* SuperMap.Format.JSON (src/src/common/format/JSON.js): the JSON reader   *)
(* and writer.  A text is a sequence of characters, a character is a       *)
(* one-element TLA+ string; the 32 control characters are the entries of   *)
(* CtlChars.  A JavaScript value is a record of one fixed shape (Val).     *)
(***************************************************************************)
EXTENDS Integers, Sequences, FiniteSets, TLC

\* ------------------------------------------------------------ bounds
\* Most slots (array elements and object properties, nested ones included)
\* of a value handed to write.
MaxSlots == 3
\* Write is not called once the (leaked) indent level has reached this.
MaxLevel == 2
\* Longest string over StrAlphabet handed to write.
MaxStrLen == 2

\* ------------------------------------------------------------ characters
\* The character with code c (0 <= c < 32) is CtlChars[c + 1].
CtlChars ==
  << "<00>", "<01>", "<02>", "<03>", "<04>", "<05>", "<06>", "<07>",
     "<08>", "\t",   "\n",   "<0b>", "\f",   "\r",   "<0e>", "<0f>",
     "<10>", "<11>", "<12>", "<13>", "<14>", "<15>", "<16>", "<17>",
     "<18>", "<19>", "<1a>", "<1b>", "<1c>", "<1d>", "<1e>", "<1f>" >>

Backspace == CtlChars[9]

IsControl(ch) == \E i \in DOMAIN CtlChars : CtlChars[i] = ch

\* Codes of the printable characters the model uses.
PrintableCode ==
  (" " :> 32) @@ ("\"" :> 34) @@ ("," :> 44) @@ ("-" :> 45) @@ ("." :> 46) @@
  ("/" :> 47) @@ ("0" :> 48) @@ ("1" :> 49) @@ ("2" :> 50) @@ ("3" :> 51) @@
  ("4" :> 52) @@ ("5" :> 53) @@ ("6" :> 54) @@ ("7" :> 55) @@ ("8" :> 56) @@
  ("9" :> 57) @@ (":" :> 58) @@ ("T" :> 84) @@ ("Z" :> 90) @@ ("[" :> 91) @@
  ("\\" :> 92) @@ ("]" :> 93) @@ ("a" :> 97) @@ ("b" :> 98) @@ ("c" :> 99) @@
  ("e" :> 101) @@ ("f" :> 102) @@ ("l" :> 108) @@ ("n" :> 110) @@
  ("o" :> 111) @@ ("r" :> 114) @@ ("s" :> 115) @@ ("t" :> 116) @@
  ("u" :> 117) @@ ("{" :> 123) @@ ("}" :> 125)

\* b.charCodeAt()
charCodeAt(ch) ==
  IF IsControl(ch)
    THEN (CHOOSE i \in DOMAIN CtlChars : CtlChars[i] = ch) - 1
    ELSE PrintableCode[ch]

DigitChars == << "0", "1", "2", "3", "4", "5", "6", "7", "8", "9" >>
HexChars == << "0", "1", "2", "3", "4", "5", "6", "7", "8", "9",
               "a", "b", "c", "d", "e", "f" >>

RECURSIVE Digits(_)
Digits(n) ==
  IF n < 10 THEN << DigitChars[n + 1] >>
  ELSE Digits(n \div 10) \o << DigitChars[(n % 10) + 1] >>

\* String(number) of an integer
NumberToString(n) == IF n < 0 THEN << "-" >> \o Digits(-n) ELSE Digits(n)

RECURSIVE toString16(_)
\* Number.prototype.toString(16) of a non-negative integer: no padding
toString16(n) ==
  IF n < 16 THEN << HexChars[n + 1] >>
  ELSE toString16(n \div 16) \o << HexChars[(n % 16) + 1] >>

\* ------------------------------------------------------------ values
NoDate == [year |-> 0, month |-> 0, date |-> 0, hours |-> 0, minutes |-> 0,
           seconds |-> 0, ms |-> 0, uyear |-> 0, umonth |-> 0, udate |-> 0,
           uhours |-> 0]

\* t: the value's kind; b: a boolean's value; n: a finite number's value;
\* nf: "" or the name of a non-finite number; s: a string's characters;
\* kids: the slots of an array or object; d: what a Date's getters return.
Val(t, b, n, nf, s, kids, d) ==
  [t |-> t, b |-> b, n |-> n, nf |-> nf, s |-> s, kids |-> kids, d |-> d]

Undefined == Val("undefined", FALSE, 0, "", << >>, << >>, NoDate)
NullV == Val("null", FALSE, 0, "", << >>, << >>, NoDate)
Bool(b) == Val("boolean", b, 0, "", << >>, << >>, NoDate)
Num(n) == Val("number", FALSE, n, "", << >>, << >>, NoDate)
NonFinite(name) == Val("number", FALSE, 0, name, << >>, << >>, NoDate)
Str(s) == Val("string", FALSE, 0, "", s, << >>, NoDate)
Func == Val("function", FALSE, 0, "", << >>, << >>, NoDate)
DateV(d) == Val("date", FALSE, 0, "", << >>, << >>, d)
\* A slot is an array element or an own enumerable property: its key (<< >>
\* in an array), whether reading it raises (an accessor whose getter throws),
\* and its value otherwise.
Slot(k, v) == [k |-> k, thr |-> FALSE, v |-> v]
ThrowingSlot(k) == [k |-> k, thr |-> TRUE, v |-> Undefined]
Arr(kids) == Val("array", FALSE, 0, "", << >>, kids, NoDate)
Obj(kids) == Val("object", FALSE, 0, "", << >>, kids, NoDate)

\* typeof value
TypeOf(v) ==
  IF v.t \in {"null", "array", "object", "date"} THEN "object" ELSE v.t

\* ------------------------------------------------------------ formatting
indent == << " ", " ", " ", " " >>
space == << " " >>
newline == << "\n" >>

RECURSIVE Repeat(_, _)
Repeat(unit, n) == IF n <= 0 THEN << >> ELSE unit \o Repeat(unit, n - 1)

writeIndent(pretty, level) == IF pretty THEN Repeat(indent, level) ELSE << >>
writeNewline(pretty) == IF pretty THEN newline ELSE << >>
writeSpace(pretty) == IF pretty THEN space ELSE << >>

\* ------------------------------------------------------------ serializers
\* A serializer's outcome: raised, or the text; and this.level afterwards.
Done(text, level) == [raised |-> FALSE, text |-> text, level |-> level]
Raise(level) == [raised |-> TRUE, text |-> << >>, level |-> level]
\* write's outcome: the string, or null (ok = FALSE); this.level afterwards;
\* threw: an exception left write.
Json(text, level) ==
  [ok |-> TRUE, text |-> text, level |-> level, threw |-> FALSE]
NullJson(level) ==
  [ok |-> FALSE, text |-> << >>, level |-> level, threw |-> FALSE]

\* the table m of serialize.string
m ==
  (Backspace :> << "\\", "b" >>) @@ ("\t" :> << "\\", "t" >>) @@
  ("\n" :> << "\\", "n" >>) @@ ("\f" :> << "\\", "f" >>) @@
  ("\r" :> << "\\", "r" >>) @@ ("\"" :> << "\\", "\"" >>) @@
  ("\\" :> << "\\", "\\" >>)

\* the class [\x00-\x1f\\"] of both regular expressions
Offending(ch) == IsControl(ch) \/ ch = "\"" \/ ch = "\\"

\* c.toString(16) in place of the two nibbles: no leading zero
HexUnpadded(c) == toString16(c)

\* the two hex digits after \u00
HexPair(c) == toString16(c \div 16) \o toString16(c % 16)

\* the replace callback
Replacement(b) ==
  IF b \in DOMAIN m THEN m[b]
  ELSE << "\\", "u", "0", "0" >> \o HexPair(charCodeAt(b))

RECURSIVE ReplaceAll(_)
ReplaceAll(s) ==
  IF s = << >> THEN << >>
  ELSE (IF Offending(Head(s)) THEN Replacement(Head(s)) ELSE << Head(s) >>)
       \o ReplaceAll(Tail(s))

serialize_string(s) ==
  IF \E i \in DOMAIN s : Offending(s[i])
    THEN << "\"" >> \o ReplaceAll(s) \o << "\"" >>
    ELSE << "\"" >> \o s \o << "\"" >>

serialize_number(v) ==
  IF v.nf = "" THEN NumberToString(v.n) ELSE << "n", "u", "l", "l" >>

serialize_boolean(v) ==
  IF v.b THEN << "t", "r", "u", "e" >> ELSE << "f", "a", "l", "s", "e" >>

\* format(number) of serialize.date
format(number) ==
  IF number < 10 THEN << "0" >> \o NumberToString(number)
  ELSE NumberToString(number)

serialize_date(d) ==
  << "\"" >> \o NumberToString(d.year) \o << "-" >> \o format(d.month + 1)
  \o << "-" >> \o format(d.date) \o << "T" >> \o format(d.hours)
  \o << ":" >> \o format(d.minutes) \o << ":" >> \o format(d.seconds)
  \o << "\"" >>


\* The keys of the serialize table.
SerializeKeys == {"object", "array", "string", "number", "boolean", "date"}

\* ------------------------------------------------------------ JSON.stringify
\* The host's JSON.stringify, which write calls when nativeJSON is set and
\* pretty is off.  Its outcome: a text, undefined, or an exception.
Native(text) == [st |-> "text", text |-> text]
NativeUndefined == [st |-> "undefined", text |-> << >>]
NativeRaise == [st |-> "raise", text |-> << >>]

RECURSIVE Pad(_, _)
Pad(digits, width) ==
  IF Len(digits) >= width THEN digits ELSE Pad(<< "0" >> \o digits, width)

\* Date.prototype.toISOString, which Date.prototype.toJSON returns: UTC, with
\* milliseconds and the Z suffix (the time zone offset is whole hours).
toISOString(d) ==
  Pad(NumberToString(d.uyear), 4) \o << "-" >>
  \o Pad(NumberToString(d.umonth + 1), 2) \o << "-" >>
  \o Pad(NumberToString(d.udate), 2) \o << "T" >>
  \o Pad(NumberToString(d.uhours), 2) \o << ":" >>
  \o Pad(NumberToString(d.minutes), 2) \o << ":" >>
  \o Pad(NumberToString(d.seconds), 2) \o << "." >>
  \o Pad(NumberToString(d.ms), 3) \o << "Z" >>

\* QuoteJSONString of the host: the short escapes, \u and four hex digits for
\* the other characters below 0x20, the character itself otherwise.
RECURSIVE QuoteBody(_)
QuoteBody(s) ==
  IF s = << >> THEN << >>
  ELSE LET ch == Head(s)
           out ==
             CASE ch = Backspace -> << "\\", "b" >>
               [] ch = "\t" -> << "\\", "t" >>
               [] ch = "\n" -> << "\\", "n" >>
               [] ch = "\f" -> << "\\", "f" >>
               [] ch = "\r" -> << "\\", "r" >>
               [] ch = "\"" -> << "\\", "\"" >>
               [] ch = "\\" -> << "\\", "\\" >>
               [] OTHER ->
                    IF IsControl(ch)
                      THEN << "\\", "u" >> \o Pad(toString16(charCodeAt(ch)), 4)
                      ELSE << ch >>
       IN out \o QuoteBody(Tail(s))

QuoteJSONString(s) == << "\"" >> \o QuoteBody(s) \o << "\"" >>

RECURSIVE stringify(_)
RECURSIVE stringifyArray(_, _, _)
RECURSIVE stringifyObject(_, _, _, _)

\* elements i.. of an array: undefined and functions become null
stringifyArray(kids, i, acc) ==
  IF i > Len(kids) THEN Native(acc \o << "]" >>)
  ELSE IF kids[i].thr THEN NativeRaise
  ELSE LET r == stringify(kids[i].v)
           sep == IF i > 1 THEN << "," >> ELSE << >>
       IN IF r.st = "raise" THEN NativeRaise
          ELSE IF r.st = "undefined"
            THEN stringifyArray(kids, i + 1,
                                acc \o sep \o << "n", "u", "l", "l" >>)
          ELSE stringifyArray(kids, i + 1, acc \o sep \o r.text)

\* properties i.. of an object: undefined and functions are left out
stringifyObject(kids, i, acc, any) ==
  IF i > Len(kids) THEN Native(acc \o << "}" >>)
  ELSE IF kids[i].thr THEN NativeRaise
  ELSE LET r == stringify(kids[i].v)
           sep == IF any THEN << "," >> ELSE << >>
       IN IF r.st = "raise" THEN NativeRaise
          ELSE IF r.st = "undefined"
            THEN stringifyObject(kids, i + 1, acc, any)
          ELSE stringifyObject(kids, i + 1,
                 acc \o sep \o QuoteJSONString(kids[i].k) \o << ":" >>
                 \o r.text, TRUE)

stringify(v) ==
  CASE v.t = "null" -> Native(<< "n", "u", "l", "l" >>)
    [] v.t = "boolean" -> Native(serialize_boolean(v))
    [] v.t = "number" -> Native(serialize_number(v))
    [] v.t = "string" -> Native(QuoteJSONString(v.s))
    [] v.t = "date" -> Native(<< "\"" >> \o toISOString(v.d) \o << "\"" >>)
    [] v.t = "array" -> stringifyArray(v.kids, 1, << "[" >>)
    [] v.t = "object" -> stringifyObject(v.kids, 1, << "{" >>, FALSE)
    [] OTHER -> NativeUndefined

\* ------------------------------------------------------------ write
RECURSIVE write(_, _, _, _)
RECURSIVE serialize_object(_, _, _, _)
RECURSIVE ObjectLoop(_, _, _, _, _, _, _)
RECURSIVE serialize_array(_, _, _, _)
RECURSIVE ArrayLoop(_, _, _, _, _, _)

\* the for-in loop of serialize.object from the i-th own property on
ObjectLoop(kids, i, pretty, nativeJSON, level, pieces, addComma) ==
  IF i > Len(kids)
    THEN Done(pieces \o writeNewline(pretty) \o writeIndent(pretty, level - 1)
              \o << "}" >>, level - 1)
  ELSE LET keyJSON == write(Str(kids[i].k), pretty, nativeJSON, level)
       IN IF kids[i].thr THEN Raise(keyJSON.level)
          ELSE LET valueJSON ==
                     write(kids[i].v, pretty, nativeJSON, keyJSON.level)
                   lv == valueJSON.level
               IN IF keyJSON.ok /\ valueJSON.ok
                    THEN ObjectLoop(kids, i + 1, pretty, nativeJSON, lv,
                           pieces \o (IF addComma THEN << "," >> ELSE << >>)
                           \o writeNewline(pretty) \o writeIndent(pretty, lv)
                           \o keyJSON.text \o << ":" >> \o writeSpace(pretty)
                           \o valueJSON.text, TRUE)
                    ELSE ObjectLoop(kids, i + 1, pretty, nativeJSON, lv,
                                    pieces, addComma)

serialize_object(object, pretty, nativeJSON, level) ==
  IF object.t = "null" THEN Done(<< "n", "u", "l", "l" >>, level)
  ELSE IF object.t = "date" THEN Done(serialize_date(object.d), level)
  ELSE IF object.t = "array"
    THEN serialize_array(object, pretty, nativeJSON, level)
  ELSE ObjectLoop(object.kids, 1, pretty, nativeJSON, level + 1, << "{" >>,
                  FALSE)

\* the for loop of serialize.array from index i - 1 on
ArrayLoop(kids, i, pretty, nativeJSON, level, pieces) ==
  IF i > Len(kids)
    THEN Done(pieces \o writeNewline(pretty) \o writeIndent(pretty, level - 1)
              \o << "]" >>, level - 1)
  ELSE IF kids[i].thr THEN Raise(level)
  ELSE LET json == write(kids[i].v, pretty, nativeJSON, level)
           lv == json.level
       IN IF json.ok
            THEN ArrayLoop(kids, i + 1, pretty, nativeJSON, lv,
                   pieces \o (IF i - 1 > 0 THEN << "," >> ELSE << >>)
                   \o writeNewline(pretty) \o writeIndent(pretty, lv)
                   \o json.text)
            ELSE ArrayLoop(kids, i + 1, pretty, nativeJSON, lv, pieces)

serialize_array(array, pretty, nativeJSON, level) ==
  ArrayLoop(array.kids, 1, pretty, nativeJSON, level + 1, << "[" >>)

\* this.serialize[type].apply(this, [value])
serialize(type, value, pretty, nativeJSON, level) ==
  CASE type = "object" -> serialize_object(value, pretty, nativeJSON, level)
    [] type = "string" -> Done(serialize_string(value.s), level)
    [] type = "number" -> Done(serialize_number(value), level)
    [] type = "boolean" -> Done(serialize_boolean(value), level)

\* write(value, pretty) on an instance whose level is `level`
write(value, pretty, nativeJSON, level) ==
  LET type == TypeOf(value)
  IN IF type \notin SerializeKeys THEN NullJson(level)
     ELSE IF ~pretty /\ nativeJSON
       THEN LET r == stringify(value)
            IN IF r.st = "text" THEN Json(r.text, level) ELSE NullJson(level)
     ELSE LET r == serialize(type, value, pretty, nativeJSON, level)
          IN IF r.raised THEN NullJson(r.level) ELSE Json(r.text, r.level)

\* ------------------------------------------------------------ JSON.parse
\* The host's JSON.parse, which read calls: the JSON grammar over the model's
\* alphabet, numbers being integers.  A parse step's outcome: ok, the value
\* (or the string) and the position after it.
Parsed(v, pos) == [ok |-> TRUE, v |-> v, s |-> << >>, pos |-> pos]
ParsedString(str, pos) == [ok |-> TRUE, v |-> Undefined, s |-> str, pos |-> pos]
SyntaxError == [ok |-> FALSE, v |-> Undefined, s |-> << >>, pos |-> 0]

IsWhitespace(ch) == ch \in {" ", "\t", "\n", "\r"}
IsDigit(ch) == \E i \in DOMAIN DigitChars : DigitChars[i] = ch
DigitValue(ch) == (CHOOSE i \in DOMAIN DigitChars : DigitChars[i] = ch) - 1
IsHex(ch) == \E i \in DOMAIN HexChars : HexChars[i] = ch
HexValue(ch) == (CHOOSE i \in DOMAIN HexChars : HexChars[i] = ch) - 1

\* String.fromCharCode, on the model's alphabet
HasChar(code) ==
  code < Len(CtlChars) \/ \E ch \in DOMAIN PrintableCode : PrintableCode[ch] = code
fromCharCode(code) ==
  IF code < Len(CtlChars) THEN CtlChars[code + 1]
  ELSE CHOOSE ch \in DOMAIN PrintableCode : PrintableCode[ch] = code

RECURSIVE SkipWs(_, _)
SkipWs(t, i) ==
  IF i <= Len(t) /\ IsWhitespace(t[i]) THEN SkipWs(t, i + 1) ELSE i

StartsWith(t, i, word) ==
  /\ i + Len(word) - 1 <= Len(t)
  /\ \A j \in DOMAIN word : t[i + j - 1] = word[j]

RECURSIVE ParseDigits(_, _, _)
\* the digits from position i on, acc being the value of those before
ParseDigits(t, i, acc) ==
  IF i <= Len(t) /\ IsDigit(t[i])
    THEN ParseDigits(t, i + 1, 10 * acc + DigitValue(t[i]))
    ELSE [n |-> acc, pos |-> i]

\* -? ( 0 | [1-9][0-9]* ), not followed by a fraction or an exponent
ParseNumber(t, i) ==
  LET neg == t[i] = "-"
      j == IF neg THEN i + 1 ELSE i
  IN IF j > Len(t) \/ ~IsDigit(t[j]) THEN SyntaxError
     ELSE LET r == IF t[j] = "0" THEN [n |-> 0, pos |-> j + 1]
                   ELSE ParseDigits(t, j, 0)
          IN IF r.pos <= Len(t) /\ (IsDigit(t[r.pos]) \/ t[r.pos] \in {".", "e"})
               THEN SyntaxError
               ELSE Parsed(Num(IF neg THEN -r.n ELSE r.n), r.pos)

\* the escape after a backslash at position i - 1
EscapeChar ==
  ("\"" :> "\"") @@ ("\\" :> "\\") @@ ("/" :> "/") @@ ("b" :> Backspace) @@
  ("f" :> "\f") @@ ("n" :> "\n") @@ ("r" :> "\r") @@ ("t" :> "\t")

RECURSIVE ParseChars(_, _, _)
\* the characters of a string from position i on, up to its closing quote
ParseChars(t, i, acc) ==
  IF i > Len(t) THEN SyntaxError
  ELSE IF t[i] = "\"" THEN ParsedString(acc, i + 1)
  ELSE IF IsControl(t[i]) THEN SyntaxError
  ELSE IF t[i] # "\\" THEN ParseChars(t, i + 1, Append(acc, t[i]))
  ELSE IF i + 1 > Len(t) THEN SyntaxError
  ELSE IF t[i + 1] \in DOMAIN EscapeChar
    THEN ParseChars(t, i + 2, Append(acc, EscapeChar[t[i + 1]]))
  ELSE IF t[i + 1] = "u" /\ i + 5 <= Len(t)
          /\ \A j \in 2..5 : IsHex(t[i + j])
    THEN LET code == 4096 * HexValue(t[i + 2]) + 256 * HexValue(t[i + 3])
                     + 16 * HexValue(t[i + 4]) + HexValue(t[i + 5])
         IN IF HasChar(code)
              THEN ParseChars(t, i + 6, Append(acc, fromCharCode(code)))
              ELSE SyntaxError
  ELSE SyntaxError

\* a property set on an object: a repeated key keeps its place, the later
\* value wins
SetProperty(kids, k, v) ==
  IF \E i \in DOMAIN kids : kids[i].k = k
    THEN [i \in DOMAIN kids |-> IF kids[i].k = k THEN Slot(k, v) ELSE kids[i]]
    ELSE Append(kids, Slot(k, v))

RECURSIVE ParseValue(_, _)
RECURSIVE ParseElements(_, _, _)
RECURSIVE ParseMembers(_, _, _)

\* the elements of an array, i being the position of the next one
ParseElements(t, i, kids) ==
  LET r == ParseValue(t, i)
  IN IF ~r.ok THEN SyntaxError
     ELSE LET j == SkipWs(t, r.pos)
              more == Append(kids, Slot(<< >>, r.v))
          IN IF j > Len(t) THEN SyntaxError
             ELSE IF t[j] = "," THEN ParseElements(t, j + 1, more)
             ELSE IF t[j] = "]" THEN Parsed(Arr(more), j + 1)
             ELSE SyntaxError

\* the members of an object, i being the position of the next one
ParseMembers(t, i, kids) ==
  LET a == SkipWs(t, i)
  IN IF a > Len(t) \/ t[a] # "\"" THEN SyntaxError
     ELSE LET key == ParseChars(t, a + 1, << >>)
          IN IF ~key.ok THEN SyntaxError
             ELSE LET c == SkipWs(t, key.pos)
                  IN IF c > Len(t) \/ t[c] # ":" THEN SyntaxError
                     ELSE LET r == ParseValue(t, c + 1)
                          IN IF ~r.ok THEN SyntaxError
                             ELSE LET j == SkipWs(t, r.pos)
                                      more == SetProperty(kids, key.s, r.v)
                                  IN IF j > Len(t) THEN SyntaxError
                                     ELSE IF t[j] = ","
                                       THEN ParseMembers(t, j + 1, more)
                                     ELSE IF t[j] = "}"
                                       THEN Parsed(Obj(more), j + 1)
                                     ELSE SyntaxError

\* the value that starts at or after position i
ParseValue(t, i) ==
  LET a == SkipWs(t, i)
  IN IF a > Len(t) THEN SyntaxError
     ELSE IF t[a] = "{"
       THEN LET b == SkipWs(t, a + 1)
            IN IF b <= Len(t) /\ t[b] = "}" THEN Parsed(Obj(<< >>), b + 1)
               ELSE ParseMembers(t, a + 1, << >>)
     ELSE IF t[a] = "["
       THEN LET b == SkipWs(t, a + 1)
            IN IF b <= Len(t) /\ t[b] = "]" THEN Parsed(Arr(<< >>), b + 1)
               ELSE ParseElements(t, a + 1, << >>)
     ELSE IF t[a] = "\""
       THEN LET r == ParseChars(t, a + 1, << >>)
            IN IF r.ok THEN Parsed(Str(r.s), r.pos) ELSE SyntaxError
     ELSE IF t[a] = "-" \/ IsDigit(t[a]) THEN ParseNumber(t, a)
     ELSE IF StartsWith(t, a, << "t", "r", "u", "e" >>)
       THEN Parsed(Bool(TRUE), a + 4)
     ELSE IF StartsWith(t, a, << "f", "a", "l", "s", "e" >>)
       THEN Parsed(Bool(FALSE), a + 5)
     ELSE IF StartsWith(t, a, << "n", "u", "l", "l" >>)
       THEN Parsed(NullV, a + 4)
     ELSE SyntaxError

\* The filters (revivers) a caller passes to read: none; one that adds one to
\* every number and returns every other value as it is; one that throws.
Filters == {"none", "increment", "throws"}

RECURSIVE Internalize(_)
\* the reviver walk with the "increment" filter: children first
Internalize(v) ==
  IF v.t \in {"array", "object"}
    THEN [v EXCEPT !.kids =
            [i \in DOMAIN v.kids |->
               Slot(v.kids[i].k, Internalize(v.kids[i].v))]]
  ELSE IF v.t = "number" THEN Num(v.n + 1)
  ELSE v

\* JSON.parse(json, filter): the value, or a thrown error (ok = FALSE)
JSONparse(json, filter) ==
  LET r == ParseValue(json, 1)
  IN IF ~r.ok \/ SkipWs(json, r.pos) <= Len(json) THEN SyntaxError
     ELSE IF filter = "throws" THEN SyntaxError
     ELSE IF filter = "increment" THEN Parsed(Internalize(r.v), r.pos)
     ELSE r

\* read without its try/catch: the parse error reaches the caller
readUncaught(json, filter, nativeJSON) ==
  LET r == JSONparse(json, filter)
  IN IF nativeJSON /\ r.ok
       THEN [object |-> r.v, parsed |-> TRUE, threw |-> FALSE]
       ELSE [object |-> Undefined, parsed |-> FALSE, threw |-> nativeJSON]

\* read(json, filter): the returned object, whether JSON.parse returned
\* normally, and whether an exception left read
read(json, filter, nativeJSON) ==
  LET r == JSONparse(json, filter)
  IN IF nativeJSON /\ r.ok
       THEN [object |-> r.v, parsed |-> TRUE, threw |-> FALSE]
       ELSE [object |-> Undefined, parsed |-> FALSE, threw |-> FALSE]

\* this.data = object whatever keepData is
KeepDataAlways(keepData, data, object) == object

\* this.data after read returned `object`
KeepData(keepData, data, object) == IF keepData THEN object ELSE data

\* ------------------------------------------------------------ inputs
SeqsUpTo(S, n) == UNION {[1..k -> S] : k \in 0..n}

\* Strings: every one-character string, and the strings of up to MaxStrLen
\* characters over a small alphabet.
AllChars == {CtlChars[i] : i \in DOMAIN CtlChars} \cup {"a", " ", "\"", "\\", "/"}
StrAlphabet == {"a", "\"", "\\", "\n", CtlChars[32]}
Strings == {<< c >> : c \in AllChars} \cup SeqsUpTo(StrAlphabet, MaxStrLen)

\* Dates: local time and the UTC time of the same instant.
Dates ==
  { [year |-> 2024, month |-> 0, date |-> 5, hours |-> 9, minutes |-> 3,
     seconds |-> 7, ms |-> 0, uyear |-> 2024, umonth |-> 0, udate |-> 5,
     uhours |-> 9],
    [year |-> 2024, month |-> 0, date |-> 5, hours |-> 9, minutes |-> 3,
     seconds |-> 7, ms |-> 0, uyear |-> 2024, umonth |-> 0, udate |-> 5,
     uhours |-> 1],
    [year |-> 2023, month |-> 11, date |-> 31, hours |-> 23, minutes |-> 59,
     seconds |-> 58, ms |-> 120, uyear |-> 2024, umonth |-> 0, udate |-> 1,
     uhours |-> 7] }

Numbers == {0, 1, 7, 10, 105, -3, -120}

Scalars ==
  {NullV, Bool(TRUE), Bool(FALSE), Func, Undefined}
  \cup {Num(n) : n \in Numbers}
  \cup {NonFinite(name) : name \in {"NaN", "Infinity", "-Infinity"}}
  \cup {Str(str) : str \in Strings}
  \cup {DateV(d) : d \in Dates}

\* The key of the i-th property of a generated object.
Keys == << << "a" >>, << "\"", "b" >>, << "c" >>, << "b" >>, << "a", "a" >> >>
Rekey(kids) == [i \in DOMAIN kids |-> [kids[i] EXCEPT !.k = Keys[i]]]

Leaves == {Num(1), Str(<< "a" >>), Func}

RECURSIVE SlotsOfCost(_)
RECURSIVE SlotSeqs(_)
\* The arrays and objects that hold n slots in all, nested ones included.
ContainersOfSize(n) ==
  UNION {{Arr(kids), Obj(Rekey(kids))} : kids \in SlotSeqs(n)}
\* A slot that counts for c slots: a leaf, an accessor that throws, or a
\* container of c - 1 slots.
SlotsOfCost(c) ==
  {Slot(<< >>, v) : v \in ContainersOfSize(c - 1)}
  \cup (IF c = 1 THEN {Slot(<< >>, v) : v \in Leaves} \cup {ThrowingSlot(<< >>)}
        ELSE {})
\* The sequences of slots that count for n slots in all.
SlotSeqs(n) ==
  IF n = 0 THEN {<< >>}
  ELSE UNION {{<< slot >> \o rest : slot \in SlotsOfCost(c),
                                    rest \in SlotSeqs(n - c)} : c \in 1..n}

Values == Scalars \cup UNION {ContainersOfSize(n) : n \in 0..MaxSlots}

\* The texts handed to read.
Texts ==
  { << "{", "n", "o", "t", " ", "v", "a", "l", "i", "d" >>,
    << >>,
    << "1" >>,
    << "-", "1", "2" >>,
    << "0", "1" >>,
    << "n", "u", "l", "l" >>,
    << "t", "r", "u", "e" >>,
    << "\"", "a", "\\", "n", "\\", "u", "0", "0", "0", "5", "\"" >>,
    << "\"", "a" >>,
    << "\"", "\n", "\"" >>,
    << "[", "1", ",", "2", ",", "3", "]" >>,
    << "[", "1", ",", "]" >>,
    << "[", ",", "1", "]" >>,
    << " ", "[", " ", "]", "\n" >>,
    << "{", "}" >>,
    << "{", "\"", "a", "\"", ":", "1", "}" >>,
    << "{", "\"", "a", "\"", ":", "[", "f", "a", "l", "s", "e", "]", ",",
       "\"", "b", "\"", ":", "{", "}", "}" >>,
    << "{", "\"", "a", "\"", ":", "1", ",", "\"", "a", "\"", ":", "2", "}" >>,
    << "{", "a", ":", "1", "}" >>,
    << "[", "1", "]", "]" >> }

\* ------------------------------------------------------------ the instance
VARIABLES
  nativeJSON,  \* this.nativeJSON
  keepData,    \* this.keepData
  data,        \* this.data
  level,       \* this.level
  pretty,      \* this.pretty
  call         \* the call that has just returned, for its caller to look at

vars == << nativeJSON, keepData, data, level, pretty, call >>

\* op: "none", "write" or "read"; value, flag: write's arguments; text,
\* filter: read's arguments; back: the text read is what that write returned;
\* ok, out: write returned the string out (else null); ret, parsed: what read
\* returned, and whether JSON.parse returned normally; threw: an exception
\* reached the caller; levelBefore, dataBefore, keep: this.level, this.data
\* and this.keepData when the call started.
NoCall ==
  [op |-> "none", value |-> Undefined, flag |-> FALSE, text |-> << >>,
   filter |-> "none", back |-> FALSE, ok |-> FALSE, out |-> << >>,
   ret |-> Undefined, parsed |-> FALSE, threw |-> FALSE, levelBefore |-> 0,
   dataBefore |-> Undefined, keep |-> FALSE]

Init ==
  /\ nativeJSON \in BOOLEAN
  /\ keepData = FALSE
  /\ data = Undefined
  /\ level = 0
  /\ pretty = FALSE
  /\ call = NoCall

WriteOp(value, flag) ==
  LET json == write(value, flag, nativeJSON, level)
  IN /\ pretty' = flag
     /\ level' = json.level
     /\ call' = [NoCall EXCEPT !.op = "write", !.value = value, !.flag = flag,
                               !.ok = json.ok, !.out = json.text,
                               !.threw = json.threw, !.levelBefore = level]
     /\ UNCHANGED << nativeJSON, keepData, data >>

ReadOp(text, filter, from) ==
  LET r == read(text, filter, nativeJSON)
  IN /\ data' = KeepData(keepData, data, r.object)
     /\ call' = [from EXCEPT !.op = "read", !.text = text, !.filter = filter,
                             !.ret = r.object, !.parsed = r.parsed,
                             !.threw = r.threw, !.dataBefore = data,
                             !.keep = keepData]
     /\ UNCHANGED << nativeJSON, keepData, level, pretty >>

\* a caller calls write
Write ==
  /\ call.op = "none"
  /\ level < MaxLevel
  /\ \E value \in Values, flag \in BOOLEAN : WriteOp(value, flag)

\* a caller calls read
Read ==
  /\ call.op = "none"
  /\ \E text \in Texts, filter \in Filters : ReadOp(text, filter, NoCall)

\* the caller of write hands the string it got to read
ReadWritten ==
  /\ call.op = "write"
  /\ call.ok
  /\ ReadOp(call.out, "none", [call EXCEPT !.back = TRUE])

\* a caller sets the keepData property of the instance
SetKeepData ==
  /\ call.op = "none"
  /\ \E b \in BOOLEAN : keepData' = b
  /\ UNCHANGED << nativeJSON, data, level, pretty, call >>

\* the caller is done with the result
Return ==
  /\ call.op # "none"
  /\ call' = NoCall
  /\ UNCHANGED << nativeJSON, keepData, data, level, pretty >>

\* a caller calls write with a value that is no array or object
WriteScalar ==
  /\ call.op = "none"
  /\ level < MaxLevel
  /\ \E value \in Scalars, flag \in BOOLEAN : WriteOp(value, flag)

Next == Write \/ Read \/ ReadWritten \/ Return
NextScalars == WriteScalar \/ Return
NextDecoder == Read \/ SetKeepData \/ Return

\* write and read on an instance with the default options
Spec == Init /\ [][Next]_vars
\* the serializers of the values that are no array or object
SpecScalars == Init /\ [][NextScalars]_vars
\* read on an instance whose keepData option is switched on and off
SpecDecoder == Init /\ [][NextDecoder]_vars

\* ------------------------------------------------------------ properties
IsContainer(v) == v.t \in {"array", "object"}

\* reading one of v's own slots raises
DirectThrow(v) == IsContainer(v) /\ \E i \in DOMAIN v.kids : v.kids[i].thr

RECURSIVE AnyThrow(_)
\* reading a slot of v, or of a value inside v, raises
AnyThrow(v) ==
  /\ IsContainer(v)
  /\ \E i \in DOMAIN v.kids : v.kids[i].thr \/ AnyThrow(v.kids[i].v)

RECURSIVE Supported(_)
\* v is built from null, booleans, numbers, strings, dates, arrays and objects
Supported(v) ==
  \/ v.t \in {"null", "boolean", "number", "string", "date"}
  \/ /\ IsContainer(v)
     /\ \A i \in DOMAIN v.kids : ~v.kids[i].thr /\ Supported(v.kids[i].v)

RECURSIVE Plain(_)
\* v is built from null, booleans, finite numbers, strings, arrays and objects
Plain(v) ==
  \/ v.t \in {"null", "boolean", "string"}
  \/ v.t = "number" /\ v.nf = ""
  \/ /\ IsContainer(v)
     /\ \A i \in DOMAIN v.kids : ~v.kids[i].thr /\ Plain(v.kids[i].v)

\* C1: no call lets an error reach its caller; read returns undefined when
\* the text does not parse; write returns null when the value's type has no
\* serializer or a serializer raises while encoding it (natively: reading any
\* slot raises; otherwise: reading one of the value's own slots raises), and
\* a string in every other case.
C1_FailSoft ==
  /\ ~call.threw
  /\ (call.op = "read" /\ ~JSONparse(call.text, call.filter).ok)
       => call.ret = Undefined
  /\ call.op = "write" =>
       (call.ok <=>
          ~ \/ TypeOf(call.value) \notin {"object", "string", "number", "boolean"}
            \/ IF ~call.flag /\ nativeJSON THEN AnyThrow(call.value)
               ELSE DirectThrow(call.value))

\* a write returned a string that read could not parse, and read returned
\* undefined without raising
C1_Witness ==
  /\ call.op = "read" /\ call.back /\ nativeJSON
  /\ ~call.parsed /\ call.ret = Undefined /\ ~call.threw

\* C2: the indent level after a write equals the level before it, also when a
\* child fails to serialize or a serializer raises inside a body.
C2_LevelRestored == call.op = "write" => level = call.levelBefore

RECURSIVE C3_Elements(_, _, _, _, _, _)
\* the text of an array from element i on: the elements that encode, a comma
\* before each but the first of them
C3_Elements(kids, i, flag, lvl, acc, any) ==
  IF i > Len(kids)
    THEN acc \o writeNewline(flag) \o writeIndent(flag, lvl - 1) \o << "]" >>
  ELSE LET json == write(kids[i].v, flag, nativeJSON, lvl)
       IN IF json.ok
            THEN C3_Elements(kids, i + 1, flag, json.level,
                   acc \o (IF any THEN << "," >> ELSE << >>)
                   \o writeNewline(flag) \o writeIndent(flag, json.level)
                   \o json.text, TRUE)
            ELSE C3_Elements(kids, i + 1, flag, json.level, acc, any)

\* C3: the text of an array holds exactly the elements whose encoding is not
\* null, in order, one comma between two consecutive ones, no comma before
\* the first, no placeholder for a skipped one; compact and pretty.
C3_ArraySkips ==
  (call.op = "write" /\ call.value.t = "array" /\ call.ok) =>
    call.out = C3_Elements(call.value.kids, 1, call.flag,
                           call.levelBefore + 1, << "[" >>, FALSE)

\* the object without the pairs whose value does not encode
C4_Pruned(object, flag) ==
  LET Encodes(slot) == write(slot.v, flag, nativeJSON, 0).ok
  IN Obj(SelectSeq(object.kids, Encodes))

\* C4: write returns for an object what it returns for the object without the
\* pairs whose encoded key or value is null; the other pairs are not lost.
C4_ObjectSkips ==
  (call.op = "write" /\ call.value.t = "object" /\ ~DirectThrow(call.value)) =>
    LET r == write(C4_Pruned(call.value, call.flag), call.flag, nativeJSON,
                   call.levelBefore)
    IN call.ok = r.ok /\ call.out = r.text

\* C5: without pretty-printing, write returns the same with the native
\* serializer as with the custom serializers, for every supported value.
C5_NativeEquivalent ==
  (call.op = "write" /\ ~call.flag /\ Supported(call.value)) =>
    LET n == write(call.value, FALSE, TRUE, call.levelBefore)
        c == write(call.value, FALSE, FALSE, call.levelBefore)
    IN n.ok = c.ok /\ n.text = c.text

\* C6: read(write(v, false)) equals v for every v built from null, booleans,
\* finite numbers, strings, arrays and objects.
C6_RoundTrip ==
  (call.op = "read" /\ call.back /\ ~call.flag /\ Plain(call.value)) =>
    call.ret = call.value

\* the text without its spaces and newlines
Strip(text) == SelectSeq(text, LAMBDA ch : ch \notin {" ", "\n"})

\* C7: write(v, true) and write(v, false) are equal once spaces and newlines
\* are removed, for every supported v.
C7_PrettyEquivalent ==
  (call.op = "write" /\ Supported(call.value)) =>
    LET p == write(call.value, TRUE, nativeJSON, call.levelBefore)
        c == write(call.value, FALSE, nativeJSON, call.levelBefore)
    IN p.ok = c.ok /\ Strip(p.text) = Strip(c.text)

\* the value encodes when written in pretty mode
C8_Emitted(v) == write(v, TRUE, nativeJSON, 0).ok

RECURSIVE C8_Layout(_, _)
RECURSIVE C8_Body(_, _, _, _, _)
\* the slots from i on of a structure whose body is at depth d: newline and d
\* indents before each emitted one, a space after a pair's colon
C8_Body(v, i, d, acc, any) ==
  IF i > Len(v.kids) THEN acc
  ELSE IF ~C8_Emitted(v.kids[i].v) THEN C8_Body(v, i + 1, d, acc, any)
  ELSE LET comma == IF v.t = "array" THEN i > 1 ELSE any
           head == IF v.t = "array" THEN << >>
                   ELSE serialize_string(v.kids[i].k) \o << ":" >> \o space
       IN C8_Body(v, i + 1, d,
                  acc \o (IF comma THEN << "," >> ELSE << >>) \o newline
                  \o Repeat(indent, d) \o head
                  \o C8_Layout(v.kids[i].v, d + 1), TRUE)

\* the pretty text of v, the body of v being at depth d: newline and d - 1
\* indents before the closing brace or bracket
C8_Layout(v, d) ==
  IF ~IsContainer(v) THEN write(v, TRUE, nativeJSON, 0).text
  ELSE (IF v.t = "array" THEN << "[" >> ELSE << "{" >>)
       \o C8_Body(v, 1, d, << >>, FALSE) \o newline \o Repeat(indent, d - 1)
       \o (IF v.t = "array" THEN << "]" >> ELSE << "}" >>)

\* C8: a pretty write that starts at level 0 puts newline and d indents
\* before every pair or element at depth d, newline and d - 1 indents before
\* the closing brace or bracket, and a space after each colon; in compact
\* mode the three helper strings are empty.
C8_PrettyLayout ==
  /\ (call.op = "write" /\ call.flag /\ call.levelBefore = 0 /\ call.ok) =>
       call.out = C8_Layout(call.value, 1)
  /\ (call.op = "write" /\ ~call.flag) =>
       /\ writeIndent(pretty, level) = << >>
       /\ writeNewline(pretty) = << >>
       /\ writeSpace(pretty) = << >>

\* the two-character escapes
C9_Short ==
  (CtlChars[9] :> "b") @@ (CtlChars[10] :> "t") @@ (CtlChars[11] :> "n") @@
  (CtlChars[13] :> "f") @@ (CtlChars[14] :> "r") @@ ("\"" :> "\"") @@
  ("\\" :> "\\")

\* what the claim gives for one character
C9_Char(ch) ==
  IF ch \in DOMAIN C9_Short THEN << "\\", C9_Short[ch] >>
  ELSE IF \E c \in 0..31 : CtlChars[c + 1] = ch
    THEN LET c == CHOOSE c \in 0..31 : CtlChars[c + 1] = ch
         IN << "\\", "u", "0", "0", HexChars[(c \div 16) + 1],
               HexChars[(c % 16) + 1] >>
  ELSE << ch >>

RECURSIVE C9_Chars(_)
C9_Chars(str) ==
  IF str = << >> THEN << >> ELSE C9_Char(Head(str)) \o C9_Chars(Tail(str))

\* the write went through serialize.string
C9_BySerializer == call.op = "write" /\ call.value.t = "string"
                   /\ (call.flag \/ ~nativeJSON)

\* C9: the string serializer returns a quote, each character's escape (two
\* characters, or \u00 and two hex digits below 0x20) or the character
\* itself, and a quote.
C9_StringEscapes ==
  C9_BySerializer =>
    /\ call.ok
    /\ call.out = << "\"" >> \o C9_Chars(call.value.s) \o << "\"" >>

\* the serializer wrote a control character that has no short escape
C9_Witness ==
  /\ C9_BySerializer
  /\ call.value.s = << CtlChars[6] >>
  /\ call.out = << "\"", "\\", "u", "0", "0", "0", "5", "\"" >>

\* C10 as claimed: the cached data is what the last successful read with
\* keepData returned; a read that fails to parse, or is made without
\* keepData, leaves it as it was.
C10_KeptOnSuccess ==
  call.op = "read" =>
    data = IF call.keep /\ call.parsed THEN call.ret ELSE call.dataBefore

\* C10 as amended: after a read with keepData the cached data is what that
\* read returned, undefined when the parse failed; a read without keepData
\* leaves it as it was.
C10_KeptOnEveryRead ==
  call.op = "read" =>
    data = IF call.keep THEN call.ret ELSE call.dataBefore

\* a read with keepData failed to parse and wiped data that was cached
C10_Witness ==
  /\ call.op = "read" /\ call.keep /\ ~call.parsed
  /\ call.dataBefore # Undefined /\ data = Undefined

=============================================================================
